---- MODULE Spec2Model ----
(***************************************************************************)
(* A model of ITCH_parser.py: the class ITCH_trade, which walks a NASDAQ   *)
(* ITCH 5.0 byte stream (get_trade_data), decodes the trade messages       *)
(* (trade_message, cross_trade_message) and aggregates them into hourly    *)
(* and cumulative VWAP rows (calculate_VWAP, get_VWAP_df).                 *)
(*                                                                         *)
(* Representation.  A byte is a number in 0..255 and a bytes object a      *)
(* sequence of them.  A str is a sequence of one-character strings where   *)
(* the code formats and parses it (the time), and a sequence of code       *)
(* points where it only compares it (the stock symbol).  Money is counted  *)
(* in thousandths of a dollar, the unit the code rounds to (round(x, 3)),  *)
(* so 100.0 is 100000.  Numbers stay below 2^31: the 48-bit timestamp is   *)
(* never held as one number but divided digit by digit.                    *)
(***************************************************************************)
EXTENDS Integers, Sequences, FiniteSets, TLC

VARIABLES
    feed,             \* the messages the feed's producer wrote (history)
    stream,           \* the bytes bin_data delivers
    handle,           \* bin_data: "none", "open" or "closed"
    pos,              \* bin_data's cursor: bytes consumed so far
    msg_type,         \* get_trade_data's msg_type: <<>> or <<tag>>
    trade_list,       \* get_trade_data's local trade_list
    cross_trade_list, \* get_trade_data's local cross_trade_list
    trade_df,         \* self.trade_df
    cross_trade_df,   \* self.cross_trade_df
    pc,               \* "idle", or "loop": at the while of get_trade_data
    caller,           \* who runs get_trade_data: "user" or "get_VWAP_df"
    include_cross_trade, \* the running get_VWAP_df's argument
    outcome,          \* how the last finished call ended
    tag_reads,        \* cursor positions at which a tag was read (history)
    calls,            \* calls made on the object so far
    decodes           \* times the file was opened so far (history)

vars == <<feed, stream, handle, pos, msg_type, trade_list, cross_trade_list,
          trade_df, cross_trade_df, pc, caller, include_cross_trade, outcome,
          tag_reads, calls, decodes>>

----------------------------------------------------------------------------
(* Bounds of the model. *)

\* Messages in a feed of the framing family.
MaxFrameMsgs == 2

\* Trade messages in a feed of the trade family.
MaxTrades == 3

\* Calls made on one ITCH_trade object.
MaxCalls == 2

----------------------------------------------------------------------------
(* Sequences and numbers. *)

Min(a, b) == IF a < b THEN a ELSE b

\* The n-fold repetition of byte b.
Fill(b, n) == [i \in 1..n |-> b]

\* s[a..b], empty when b < a (Python's slice).
Slice(s, a, b) == IF b < a THEN <<>> ELSE SubSeq(s, a, b)

\* struct's big-endian unsigned integer ('>H', '>I', '>Q') of a byte string.
RECURSIVE BigEndian(_)
BigEndian(bs) ==
    IF bs = <<>> THEN 0
    ELSE 256 * BigEndian(SubSeq(bs, 1, Len(bs) - 1)) + bs[Len(bs)]

\* One pass of long division of the base-256 number ds by d: its quotient,
\* again as base-256 digits, and its remainder.
RECURSIVE LongDivFrom(_, _, _, _, _)
LongDivFrom(ds, d, i, rem, acc) ==
    IF i > Len(ds) THEN [q |-> acc, r |-> rem]
    ELSE LET cur == rem * 256 + ds[i]
         IN  LongDivFrom(ds, d, i + 1, cur % d, Append(acc, cur \div d))

LongDiv(ds, d) == LongDivFrom(ds, d, 1, 0, <<>>)

\* round() of the exact quotient n / d to an integer, ties to even.
RoundHalfEven(n, d) ==
    LET q == n \div d
        r == n % d
    IN  IF 2 * r > d THEN q + 1
        ELSE IF 2 * r < d THEN q
        ELSE IF q % 2 = 0 THEN q ELSE q + 1

----------------------------------------------------------------------------
(* str: formatting and parsing. *)

Digits == <<"0", "1", "2", "3", "4", "5", "6", "7", "8", "9">>

IsDigit(c) == \E d \in 1..10 : Digits[d] = c

DigitValue(c) == (CHOOSE d \in 1..10 : Digits[d] = c) - 1

\* '%d' % n, n >= 0.
RECURSIVE FormatInt(_)
FormatInt(n) ==
    IF n < 10 THEN <<Digits[n + 1]>>
    ELSE Append(FormatInt(n \div 10), Digits[(n % 10) + 1])

\* '%02d' % n, n >= 0.
FormatInt02(n) == IF n < 10 THEN <<"0">> \o FormatInt(n) ELSE FormatInt(n)

\* s.split(sep)[0]: the text before the first sep, all of s without one.
RECURSIVE SplitFirst(_, _)
SplitFirst(s, sep) ==
    IF s = <<>> \/ s[1] = sep THEN <<>>
    ELSE <<s[1]>> \o SplitFirst(Tail(s), sep)

\* Whether int(s) accepts s: here s never holds a sign, an underscore or
\* outer blanks, so it must be a non-empty run of digits.
IntParses(s) == s # <<>> /\ \A i \in 1..Len(s) : IsDigit(s[i])

\* int(s) for a run of digits.
RECURSIVE ParseInt(_)
ParseInt(s) ==
    IF s = <<>> THEN 0
    ELSE 10 * ParseInt(SubSeq(s, 1, Len(s) - 1)) + DigitValue(s[Len(s)])

\* bytes.decode('ascii') succeeds iff every byte is below 128; the text has
\* the bytes' own code points.
AsciiDecodes(bs) == \A i \in 1..Len(bs) : bs[i] < 128

\* The characters str.strip() removes: \t \n \v \f \r, FS GS RS US, space.
IsSpace(c) == c \in (9..13) \cup (28..32)

\* str.strip(): blanks removed at both ends.
RECURSIVE LStrip(_)
LStrip(s) == IF s # <<>> /\ IsSpace(s[1]) THEN LStrip(Tail(s)) ELSE s

RECURSIVE RStrip(_)
RStrip(s) ==
    IF s # <<>> /\ IsSpace(s[Len(s)]) THEN RStrip(SubSeq(s, 1, Len(s) - 1))
    ELSE s

Strip(s) == LStrip(RStrip(s))

----------------------------------------------------------------------------
(* The timestamp: timedelta(seconds = ns / 1e9), printed and cut at '.'. *)

\* The 6 timestamp bytes, behind the 2 zero bytes the decoders pack before
\* them, split into whole seconds and the nanoseconds below: three
\* divisions by 1000 of the 64-bit big-endian number.
SplitNanos(ts) ==
    LET d1 == LongDiv(<<0, 0>> \o ts, 1000)
        d2 == LongDiv(d1.q, 1000)
        d3 == LongDiv(d2.q, 1000)
    IN  [seconds |-> BigEndian(d3.q),
         nanos   |-> (d3.r * 1000 + d2.r) * 1000 + d1.r]

\* timedelta(seconds = x) keeps whole microseconds: the fraction of x is
\* rounded to the nearest microsecond and a full million is carried into
\* the seconds.  (An exact half microsecond is decided in the code by the
\* binary rounding of ns / 1e9; it is rounded to even here.)
Timedelta(ts) ==
    LET sn     == SplitNanos(ts)
        micros == RoundHalfEven(sn.nanos, 1000)
        secs   == sn.seconds + (micros \div 1000000)
    IN  [days         |-> secs \div 86400,
         seconds      |-> secs % 86400,
         microseconds |-> micros % 1000000]

\* str(timedelta): '[D day[s], ]H:MM:SS[.UUUUUU]'.
TimedeltaStr(td) ==
    LET hh   == td.seconds \div 3600
        mm   == (td.seconds % 3600) \div 60
        ss   == td.seconds % 60
        us   == FormatInt(td.microseconds)
        hms  == FormatInt(hh) \o <<":">> \o FormatInt02(mm) \o <<":">>
                    \o FormatInt02(ss)
        day  == IF td.days = 0 THEN <<>>
                ELSE FormatInt(td.days) \o <<" ", "d", "a", "y">>
                         \o (IF td.days = 1 THEN <<>> ELSE <<"s">>)
                         \o <<",", " ">>
        frac == IF td.microseconds = 0 THEN <<>>
                ELSE <<".">> \o [i \in 1..(6 - Len(us)) |-> "0"] \o us
    IN  day \o hms \o frac

\* time_str of lines 36 and 58.
TimeStr(ts) == SplitFirst(TimedeltaStr(Timedelta(ts)), ".")

----------------------------------------------------------------------------
(* The decoders. *)

\* round(x / 10000, 3) of a wire price, in thousandths.  (An x ending in 5 is
\* decided in the code by the binary rounding of x / 10000; it is rounded to
\* even here.)
Price(x) == RoundHalfEven(x, 10)

\* The exception trade_message(msg) raises, "" when it returns: line 31
\* unpacks exactly 43 bytes, line 37 parses the hour, line 38 decodes the
\* buy/sell indicator and then the stock.
TradeMessageError(msg) ==
    IF Len(msg) # 43 THEN "struct.error"
    ELSE IF ~IntParses(SplitFirst(TimeStr(SubSeq(msg, 5, 10)), ":"))
         THEN "ValueError"
    ELSE IF ~AsciiDecodes(SubSeq(msg, 19, 19)) \/ ~AsciiDecodes(SubSeq(msg, 24, 31))
         THEN "UnicodeDecodeError"
    ELSE ""

\* end_time_hour of lines 37 and 59: int(time_str.split(':')[0]) + 1.
EndTimeHour(time_str) == ParseInt(SplitFirst(time_str, ":")) + 1

\* trade_message(msg): the 43 bytes are locate and tracking (1..4), timestamp
\* (5..10), order reference (11..18), buy/sell (19), shares (20..23), stock
\* (24..31), price (32..35) and match number (36..43).
trade_message(msg) ==
    LET time_str == TimeStr(SubSeq(msg, 5, 10))
    IN  [time          |-> time_str,
         end_time_hour |-> EndTimeHour(time_str),
         type          |-> msg[19],
         shares        |-> BigEndian(SubSeq(msg, 20, 23)),
         stock         |-> Strip(SubSeq(msg, 24, 31)),
         price         |-> Price(BigEndian(SubSeq(msg, 32, 35)))]

\* The exception cross_trade_message(msg) raises, "" when it returns: line 53
\* unpacks exactly 39 bytes, line 59 parses the hour, line 60 decodes the
\* cross type and then the stock.
CrossTradeMessageError(msg) ==
    IF Len(msg) # 39 THEN "struct.error"
    ELSE IF ~IntParses(SplitFirst(TimeStr(SubSeq(msg, 5, 10)), ":"))
         THEN "ValueError"
    ELSE IF ~AsciiDecodes(SubSeq(msg, 39, 39)) \/ ~AsciiDecodes(SubSeq(msg, 19, 26))
         THEN "UnicodeDecodeError"
    ELSE ""

\* cross_trade_message(msg): the 39 bytes are locate and tracking (1..4),
\* timestamp (5..10), shares (11..18), stock (19..26), price (27..30), match
\* number (31..38) and cross type (39).
cross_trade_message(msg) ==
    LET time_str == TimeStr(SubSeq(msg, 5, 10))
    IN  [time          |-> time_str,
         end_time_hour |-> EndTimeHour(time_str),
         type          |-> msg[39],
         shares        |-> BigEndian(SubSeq(msg, 11, 18)),
         stock         |-> Strip(SubSeq(msg, 19, 26)),
         price         |-> Price(BigEndian(SubSeq(msg, 27, 30)))]

----------------------------------------------------------------------------
(* calculate_VWAP. *)

\* What pandas puts where a float division is 0 / 0 or x / 0: no exception
\* is raised.  Every other quotient of the model is >= 0.
NaN == -1
Inf == -2

\* round(a / b, 3) of two float columns, a and the result in thousandths.
RoundedRatio(a, b) ==
    IF b = 0 THEN (IF a = 0 THEN NaN ELSE Inf) ELSE RoundHalfEven(a, b)

\* Python's str order, by code point.
RECURSIVE StockLess(_, _)
StockLess(a, b) ==
    IF b = <<>> THEN FALSE
    ELSE IF a = <<>> THEN TRUE
    ELSE IF a[1] # b[1] THEN a[1] < b[1]
    ELSE StockLess(Tail(a), Tail(b))

\* A mutant of KeyLess: the stock first, then the hour.
KeyLessStockFirst(k1, k2) ==
    StockLess(k1[2], k2[2]) \/ (k1[2] = k2[2] /\ k1[1] < k2[1])

\* The order of ['end_time_hour', 'stock'], both ascending.
KeyLess(k1, k2) ==
    k1[1] < k2[1] \/ (k1[1] = k2[1] /\ StockLess(k1[2], k2[2]))

\* The keys of S in ascending order.
RECURSIVE SortKeys(_)
SortKeys(S) ==
    IF S = {} THEN <<>>
    ELSE LET k == CHOOSE x \in S : \A y \in S \ {x} : KeyLess(x, y)
         IN  <<k>> \o SortKeys(S \ {k})

\* The sum of f[i] over the i in 1..n with p[i].
RECURSIVE SumWhere(_, _, _)
SumWhere(f, p, n) ==
    IF n = 0 THEN 0
    ELSE SumWhere(f, p, n - 1) + (IF p[n] THEN f[n] ELSE 0)

\* Line 149: the total_value column, price * shares.
TotalValue(df) == [i \in 1..Len(df) |-> df[i].price * df[i].shares]

\* The key of the groupby of line 151.
GroupKey(row) == <<row.end_time_hour, row.stock>>

\* Lines 151 to 154: groupby(['end_time_hour', 'stock']).sum(), whose groups
\* come in key order, the vwap column, and sort_values, which orders the rows
\* by the same key.
HourlyRows(df) ==
    LET tv   == TotalValue(df)
        sh   == [i \in 1..Len(df) |-> df[i].shares]
        keys == SortKeys({GroupKey(df[i]) : i \in 1..Len(df)})
        row(k) ==
            LET in == [i \in 1..Len(df) |-> GroupKey(df[i]) = k]
                v  == SumWhere(tv, in, Len(df))
                s  == SumWhere(sh, in, Len(df))
            IN  [end_time_hour |-> k[1], stock |-> k[2],
                 total_value |-> v, shares |-> s, vwap |-> RoundedRatio(v, s)]
    IN  [j \in 1..Len(keys) |-> row(keys[j])]

\* A mutant of CumGroup: one running sum over all rows.
CumGroupAll(rows, j, i) == TRUE

\* Whether row j is in row i's group of groupby(trade_df['stock']).
CumGroup(rows, j, i) == rows[j].stock = rows[i].stock

\* Lines 156 to 160: the cumsum of a stock's rows, in row order, up to and
\* including the row itself, and the cum_vwap column.
calculate_VWAP(df) ==
    LET rows == HourlyRows(df)
        n    == Len(rows)
        tv   == [j \in 1..n |-> rows[j].total_value]
        sh   == [j \in 1..n |-> rows[j].shares]
        cum(i) ==
            LET in == [j \in 1..n |-> j <= i /\ CumGroup(rows, j, i)]
                cv == SumWhere(tv, in, n)
                cs == SumWhere(sh, in, n)
            IN  [end_time_hour   |-> rows[i].end_time_hour,
                 stock           |-> rows[i].stock,
                 total_value     |-> rows[i].total_value,
                 shares          |-> rows[i].shares,
                 vwap            |-> rows[i].vwap,
                 cum_total_value |-> cv,
                 cum_shares      |-> cs,
                 cum_vwap        |-> RoundedRatio(cv, cs)]
    IN  [i \in 1..n |-> cum(i)]

----------------------------------------------------------------------------
(* get_trade_data: the message table and the reads. *)

\* The message types the assert of lines 78 and 79 lets through:
\* S R H Y L V W K J h A F E C X D U P Q B I.
KnownTypes ==
    {83, 82, 72, 89, 76, 86, 87, 75, 74, 104, 65, 70, 69, 67, 88, 68, 85, 80,
     81, 66, 73}

\* A mutant of SkipLength: the stock directory message (R) one byte short.
SkipLengthShortR(t) ==
    CASE t = 83 -> 13 [] t = 82 -> 39 [] t = 72 -> 26 [] t = 89 -> 21
      [] t = 76 -> 27 [] t = 86 -> 36 [] t = 87 -> 13 [] t = 75 -> 29
      [] t = 74 -> 36 [] t = 104 -> 22 [] t = 65 -> 37 [] t = 70 -> 41
      [] t = 69 -> 32 [] t = 67 -> 37 [] t = 88 -> 24 [] t = 68 -> 20
      [] t = 85 -> 36 [] t = 66 -> 20 [] t = 73 -> 51

\* The bytes lines 80 to 127 read and drop after a message type other than
\* P and Q.
SkipLength(t) ==
    CASE t = 83 -> 13 [] t = 82 -> 40 [] t = 72 -> 26 [] t = 89 -> 21
      [] t = 76 -> 27 [] t = 86 -> 36 [] t = 87 -> 13 [] t = 75 -> 29
      [] t = 74 -> 36 [] t = 104 -> 22 [] t = 65 -> 37 [] t = 70 -> 41
      [] t = 69 -> 32 [] t = 67 -> 37 [] t = 88 -> 24 [] t = 68 -> 20
      [] t = 85 -> 36 [] t = 66 -> 20 [] t = 73 -> 51

\* The cursor after bin_data.read(n) at cursor p: a read past the end stops
\* at the end and raises nothing.
After(p, n) == Min(p + n, Len(stream))

\* The bytes bin_data.read(n) returns at cursor p.
Read(p, n) == Slice(stream, p + 1, After(p, n))

\* pandas.DataFrame(rows, columns = [...]) of lines 130 and 131, and the
\* None of lines 17 and 18.
Columns == <<"time", "end_time_hour", "type", "shares", "stock", "price">>

DataFrame(rows) == [isNone |-> FALSE, columns |-> Columns, rows |-> rows]

None == [isNone |-> TRUE, columns |-> <<>>, rows |-> <<>>]

\* How a call ended.
NoOutcome == [kind |-> "none", call |-> "", exc |-> "", value |-> <<>>]

Raised(call, exc) == [kind |-> "raised", call |-> call, exc |-> exc, value |-> <<>>]

Returned(call, value) ==
    [kind |-> "returned", call |-> call, exc |-> "", value |-> value]

----------------------------------------------------------------------------
(* The input: the feed file gzip.open delivers. *)

\* The two control characters before the first message (line 74).
Preamble == <<0, 0>>

\* The feed's own framing: the bytes that follow the message type of a
\* message that carries no trade.
WireLength(t) ==
    CASE t \in {83, 87} -> 13 [] t \in {68, 66} -> 20 [] t = 89 -> 21
      [] t = 104 -> 22 [] t = 88 -> 24 [] t = 72 -> 26 [] t = 76 -> 27
      [] t = 75 -> 29 [] t = 69 -> 32 [] t \in {86, 74, 85} -> 36
      [] t \in {65, 67} -> 37 [] t = 82 -> 40 [] t = 70 -> 41 [] t = 73 -> 51

\* n as `width` big-endian bytes.
RECURSIVE Encode(_, _)
Encode(n, width) ==
    IF width = 0 THEN <<>>
    ELSE Append(Encode(n \div 256, width - 1), n % 256)

\* A message without a trade: its type and a payload of zero bytes.
OtherMessage(t) == <<t>> \o Fill(0, WireLength(t))

\* A P message of 1 + 43 + 2 bytes.
PMessage(ts, side, shares, stock, price) ==
    <<80>> \o Fill(0, 4) \o ts \o Fill(0, 8) \o <<side>> \o Encode(shares, 4)
        \o stock \o Encode(price, 4) \o Fill(0, 8) \o Fill(0, 2)

\* A Q message of 1 + 39 + 2 bytes.
QMessage(ts, shares, stock, price, type) ==
    <<81>> \o Fill(0, 4) \o ts \o Encode(shares, 8) \o stock
        \o Encode(price, 4) \o Fill(0, 8) \o <<type>> \o Fill(0, 2)

\* A byte that is no message type, and three more.
UnknownMessage == <<0, 80, 81, 0>>

\* Timestamps, as the 6 wire bytes, with the whole seconds and the
\* nanoseconds below they stand for.
T_09_15_00 == <<30, 73, 66, 171, 200, 0>>
T_10_30_00 == <<34, 96, 255, 146, 144, 0>>
T_11_00_00 == <<36, 4, 23, 238, 224, 0>>
T_24_00_00 == <<78, 148, 145, 79, 0, 0>>

TimestampSamples ==
    { [ts |-> <<0, 0, 0, 0, 0, 0>>,             seconds |-> 0,     nanos |-> 0],
      [ts |-> <<13, 31, 191, 6, 44, 0>>,        seconds |-> 14430, nanos |-> 0],
      [ts |-> <<16, 94, 243, 155, 32, 0>>,      seconds |-> 18000, nanos |-> 0],
      [ts |-> <<32, 189, 201, 104, 219, 0>>,    seconds |-> 35999, nanos |-> 500000000],
      [ts |-> <<13, 31, 250, 160, 243, 168>>,   seconds |-> 14430, nanos |-> 999999400],
      [ts |-> <<13, 31, 250, 160, 244, 112>>,   seconds |-> 14430, nanos |-> 999999600],
      [ts |-> <<3, 70, 48, 184, 158, 11>>,      seconds |-> 3599,  nanos |-> 999999499],
      [ts |-> <<3, 70, 48, 184, 159, 255>>,     seconds |-> 3599,  nanos |-> 999999999],
      [ts |-> <<78, 148, 85, 180, 54, 0>>,      seconds |-> 86399, nanos |-> 0],
      [ts |-> <<78, 148, 145, 78, 255, 255>>,   seconds |-> 86399, nanos |-> 999999999],
      [ts |-> <<78, 148, 145, 79, 0, 0>>,       seconds |-> 86400, nanos |-> 0],
      [ts |-> <<255, 255, 255, 255, 255, 255>>, seconds |-> 281474, nanos |-> 976710655] }

\* Stock symbols, space-padded to 8 bytes.
AAPL == <<65, 65, 80, 76, 32, 32, 32, 32>>
MSFT == <<77, 83, 70, 84, 32, 32, 32, 32>>
NonAscii == <<65, 200, 80, 76, 32, 32, 32, 32>>

\* The trade messages of the trade family: side 'B' (66) or 'S' (83), cross
\* type 'O' (79) or 'C' (67), prices in 1/10000.
PTrades ==
    { PMessage(T_09_15_00, 66, 100, AAPL, 1000000),
      PMessage(T_10_30_00, 83, 200, AAPL, 500000),
      PMessage(T_09_15_00, 83, 200, AAPL, 500000),
      PMessage(T_09_15_00, 66, 7, MSFT, 123456),
      PMessage(T_11_00_00, 66, 0, MSFT, 100000) }

QTrades ==
    { QMessage(T_09_15_00, 300, AAPL, 1000000, 79),
      QMessage(T_11_00_00, 0, MSFT, 100000, 67) }

\* All sequences of at most n elements of S.
RECURSIVE SeqsUpTo(_, _)
SeqsUpTo(S, n) ==
    IF n = 0 THEN {<<>>}
    ELSE LET shorter == SeqsUpTo(S, n - 1)
         IN  shorter \cup {Append(f, m) : f \in shorter, m \in S}

\* The bytes of a feed: the preamble and the messages, one after the other.
RECURSIVE Flatten(_)
Flatten(f) == IF f = <<>> THEN <<>> ELSE f[1] \o Flatten(Tail(f))

FeedBytes(f) == Preamble \o Flatten(f)

\* Feeds every family holds: one of each kind of message, and one with an
\* unknown message type.
BaseFeeds ==
    { <<OtherMessage(83), PMessage(T_09_15_00, 66, 100, AAPL, 1000000),
        QMessage(T_09_15_00, 300, AAPL, 1000000, 79)>>,
      <<PMessage(T_09_15_00, 66, 100, AAPL, 1000000), UnknownMessage>> }

\* The framing family: every message type, cut short or whole, a P message
\* whose timestamp does not decode, and the unknown type.
FrameMessages ==
    {OtherMessage(t) : t \in KnownTypes \ {80, 81}}
        \cup { PMessage(T_09_15_00, 66, 100, AAPL, 1000000),
               QMessage(T_09_15_00, 300, AAPL, 1000000, 79),
               PMessage(T_24_00_00, 66, 100, AAPL, 1000000),
               UnknownMessage }

\* The messages that follow the first two of a longer feed.
FollowMessages ==
    { OtherMessage(83), PMessage(T_09_15_00, 66, 100, AAPL, 1000000),
      QMessage(T_09_15_00, 300, AAPL, 1000000, 79), UnknownMessage }

\* The feeds of at most n messages: the first two range over every message
\* type, the later ones over FollowMessages.
RECURSIVE FrameFeedsUpTo(_)
FrameFeedsUpTo(n) ==
    IF n = 0 THEN {<<>>}
    ELSE LET shorter == FrameFeedsUpTo(n - 1)
         IN  shorter \cup
                 { Append(f, m) : f \in {g \in shorter : Len(g) = n - 1},
                       m \in (IF n <= 2 THEN FrameMessages ELSE FollowMessages) }

FrameFeeds == FrameFeedsUpTo(MaxFrameMsgs) \cup BaseFeeds

\* Where the file ends: after the whole feed, 1, 2 or 3 bytes before, or
\* right after the last message's type; a file without a message has 0, 1 or
\* 2 bytes.
Cuts(f) ==
    LET total == Len(FeedBytes(f))
    IN  IF f = <<>> THEN 0..2
        ELSE {total - Len(f[Len(f)]) + 1} \cup ((total - 3)..total)

\* The timestamp family: one P or Q message per sampled timestamp, and
\* messages whose stock is not ASCII.
TimestampMessages ==
    { PMessage(s.ts, 66, 100, AAPL, 1000000) : s \in TimestampSamples }
        \cup { QMessage(s.ts, 300, AAPL, 1000000, 79) : s \in TimestampSamples }

TimestampFeeds ==
    { <<m>> : m \in TimestampMessages }
        \cup { <<PMessage(T_09_15_00, 66, 100, NonAscii, 1000000)>>,
               <<QMessage(T_09_15_00, 300, NonAscii, 1000000, 79)>> }
        \cup BaseFeeds

\* The trade family: whole feeds of P and Q messages.
TradeFeeds == SeqsUpTo(PTrades \cup QTrades, MaxTrades) \cup BaseFeeds

----------------------------------------------------------------------------
(* The object. *)

\* __init__, lines 16 to 18, on a file that holds `bytes`.
InitObject(f, bytes) ==
    /\ feed = f
    /\ stream = bytes
    /\ handle = "none"
    /\ pos = 0
    /\ msg_type = <<>>
    /\ trade_list = <<>>
    /\ cross_trade_list = <<>>
    /\ trade_df = None
    /\ cross_trade_df = None
    /\ pc = "idle"
    /\ caller = ""
    /\ include_cross_trade = FALSE
    /\ outcome = NoOutcome
    /\ tag_reads = <<>>
    /\ calls = 0
    /\ decodes = 0

Init == \E f \in TradeFeeds : InitObject(f, FeedBytes(f))

InitFraming ==
    \E f \in FrameFeeds : \E c \in Cuts(f) :
        InitObject(f, Slice(FeedBytes(f), 1, c))

InitTimestamps == \E f \in TimestampFeeds : InitObject(f, FeedBytes(f))

----------------------------------------------------------------------------
(* get_trade_data. *)

\* Lines 71 to 75: the lists are emptied, the file is opened, the two
\* control characters are passed and the first message type is read.
Enter(who) ==
    /\ trade_list' = <<>>
    /\ cross_trade_list' = <<>>
    /\ handle' = "open"
    /\ msg_type' = Read(After(0, 2), 1)
    /\ pos' = After(After(0, 2), 1)
    /\ tag_reads' = IF Read(After(0, 2), 1) = <<>> THEN <<>> ELSE <<After(0, 2)>>
    /\ pc' = "loop"
    /\ caller' = who
    /\ decodes' = decodes + 1

\* Line 128, with the cursor at p: the next message type is read.
NextType(p) ==
    /\ msg_type' = Read(p, 1)
    /\ pos' = After(p, 1)
    /\ tag_reads' = IF Read(p, 1) = <<>> THEN tag_reads ELSE Append(tag_reads, p)

\* An exception leaves get_trade_data, and get_VWAP_df when it is the
\* caller: nothing catches it, and no statement closes bin_data.
Raise(exc) ==
    /\ pc' = "idle"
    /\ outcome' = Raised(IF caller = "user" THEN "get_trade_data" ELSE caller, exc)
    /\ UNCHANGED <<feed, stream, handle, pos, msg_type, trade_list,
                   cross_trade_list, trade_df, cross_trade_df, caller,
                   include_cross_trade, tag_reads, calls, decodes>>

\* A user's call of get_trade_data().
get_trade_data ==
    /\ pc = "idle"
    /\ calls < MaxCalls
    /\ calls' = calls + 1
    /\ Enter("user")
    /\ UNCHANGED <<feed, stream, trade_df, cross_trade_df, include_cross_trade,
                   outcome>>

\* A mutant of TypeIsValid: every byte passes.
TypeIsValidAlways(t) == TRUE

\* The assert of lines 78 and 79.
TypeIsValid(t) == t \in KnownTypes

\* Lines 78 and 79 fail: the message type is not a known one.
InvalidMessageType ==
    /\ pc = "loop"
    /\ msg_type # <<>>
    /\ ~TypeIsValid(msg_type[1])
    /\ Raise("AssertionError")

\* Lines 80 to 113 and 124 to 128: a message without a trade is read and
\* dropped.  A message type that passed the assert and matches no branch
\* reads nothing.
SkipMessage ==
    /\ pc = "loop"
    /\ msg_type # <<>>
    /\ TypeIsValid(msg_type[1])
    /\ msg_type[1] \notin {80, 81}
    /\ NextType(IF msg_type[1] \in KnownTypes
                THEN After(pos, SkipLength(msg_type[1])) ELSE pos)
    /\ UNCHANGED <<feed, stream, handle, trade_list, cross_trade_list, trade_df,
                   cross_trade_df, pc, caller, include_cross_trade, outcome,
                   calls, decodes>>

\* Lines 114 to 118 and 128: a P message is read, decoded and appended.
TradeP ==
    /\ pc = "loop"
    /\ msg_type = <<80>>
    /\ TypeIsValid(80)
    /\ LET msg == Read(pos, 43)
       IN  IF TradeMessageError(msg) # ""
           THEN Raise(TradeMessageError(msg))
           ELSE /\ trade_list' = Append(trade_list, trade_message(msg))
                /\ NextType(After(After(pos, 43), 2))
                /\ UNCHANGED <<feed, stream, handle, cross_trade_list,
                               trade_df, cross_trade_df, pc, caller,
                               include_cross_trade, outcome, calls, decodes>>

\* Lines 119 to 123 and 128: a Q message is read, decoded and appended.
TradeQ ==
    /\ pc = "loop"
    /\ msg_type = <<81>>
    /\ TypeIsValid(81)
    /\ LET msg == Read(pos, 39)
       IN  IF CrossTradeMessageError(msg) # ""
           THEN Raise(CrossTradeMessageError(msg))
           ELSE /\ cross_trade_list' =
                       Append(cross_trade_list, cross_trade_message(msg))
                /\ NextType(After(After(pos, 39), 2))
                /\ UNCHANGED <<feed, stream, handle, trade_list, trade_df,
                               cross_trade_df, pc, caller, include_cross_trade,
                               outcome, calls, decodes>>

----------------------------------------------------------------------------
(* get_VWAP_df. *)

\* Line 149 on the frame calculate_VWAP is given: it gains a column.
WithTotalValue(df) == [df EXCEPT !.columns = Append(@, "total_value")]

\* self.trade_df after lines 177 to 182: calculate_VWAP is given a copy
\* (line 180) or a concat of copies (line 178), so the frame is as before.
CachedAfter(df, include) == df

\* A mutant of TotalTradeDf: the cross trades are always merged in.
TotalTradeDfAlwaysCross(tdf, cdf, include) == tdf.rows \o cdf.rows

\* Lines 177 to 180: the rows calculate_VWAP is given.
TotalTradeDf(tdf, cdf, include) ==
    IF include THEN tdf.rows \o cdf.rows ELSE tdf.rows

\* A mutant of MustDecode: the file is decoded on every call.
MustDecodeAlways(tdf, cdf) == TRUE

\* Line 174.
MustDecode(tdf, cdf) == tdf.isNone \/ cdf.isNone

\* get_VWAP_df(include) on an object that has no frames yet: line 175 runs
\* get_trade_data.
get_VWAP_df_decode ==
    /\ pc = "idle"
    /\ calls < MaxCalls
    /\ MustDecode(trade_df, cross_trade_df)
    /\ calls' = calls + 1
    /\ \E include \in BOOLEAN : include_cross_trade' = include
    /\ Enter("get_VWAP_df")
    /\ UNCHANGED <<feed, stream, trade_df, cross_trade_df, outcome>>

\* get_VWAP_df(include) on an object that has its frames: lines 177 to 183.
get_VWAP_df_cached ==
    /\ pc = "idle"
    /\ calls < MaxCalls
    /\ ~MustDecode(trade_df, cross_trade_df)
    /\ calls' = calls + 1
    /\ \E include \in BOOLEAN :
          /\ include_cross_trade' = include
          /\ outcome' = Returned("get_VWAP_df",
                 calculate_VWAP(TotalTradeDf(trade_df, cross_trade_df, include)))
          /\ trade_df' = CachedAfter(trade_df, include)
    /\ caller' = "get_VWAP_df"
    /\ UNCHANGED <<feed, stream, handle, pos, msg_type, trade_list,
                   cross_trade_list, cross_trade_df, pc, tag_reads, decodes>>

\* Lines 77 and 129 to 134: the read of a message type returned nothing, the
\* loop ends, the frames are built and stored; a user gets them, and
\* get_VWAP_df goes on with lines 175 to 183.
EndOfStream ==
    /\ pc = "loop"
    /\ msg_type = <<>>
    /\ pc' = "idle"
    /\ cross_trade_df' = DataFrame(cross_trade_list)
    /\ IF caller = "user"
       THEN /\ trade_df' = DataFrame(trade_list)
            /\ outcome' = Returned("get_trade_data",
                   <<DataFrame(trade_list), DataFrame(cross_trade_list)>>)
       ELSE /\ trade_df' = CachedAfter(DataFrame(trade_list), include_cross_trade)
            /\ outcome' = Returned("get_VWAP_df",
                   calculate_VWAP(TotalTradeDf(DataFrame(trade_list),
                       DataFrame(cross_trade_list), include_cross_trade)))
    /\ UNCHANGED <<feed, stream, handle, pos, msg_type, trade_list,
                   cross_trade_list, caller, include_cross_trade, tag_reads,
                   calls, decodes>>

Next ==
    \/ get_trade_data
    \/ get_VWAP_df_decode
    \/ get_VWAP_df_cached
    \/ InvalidMessageType
    \/ SkipMessage
    \/ TradeP
    \/ TradeQ
    \/ EndOfStream

\* The object on the feeds of the trade family.
Spec == Init /\ [][Next]_vars

\* The object on the feeds of the framing family.
SpecFraming == InitFraming /\ [][Next]_vars

\* The object on the feeds of the timestamp family.
SpecTimestamps == InitTimestamps /\ [][Next]_vars

----------------------------------------------------------------------------
(* What the claims speak of. *)

\* The cursor at which message k of the feed starts.
MessageStart(k) == Len(FeedBytes(SubSeq(feed, 1, k - 1)))

\* The cursors at which a message starts or the whole feed ends.
Boundaries == {MessageStart(k) : k \in 1..(Len(feed) + 1)}

\* The file holds a byte that is no message type where a message starts.
UnknownDelivered ==
    \E k \in 1..Len(feed) :
        feed[k] = UnknownMessage /\ MessageStart(k) < Len(stream)

\* The file holds the whole feed, and every message of it is of a known type.
WellFormed ==
    /\ stream = FeedBytes(feed)
    /\ \A k \in 1..Len(feed) : feed[k] # UnknownMessage

\* A call has ended.
Finished == pc = "idle" /\ outcome.kind # "none"

\* get_VWAP_df has returned a table, for the argument include_cross_trade.
VwapReturned ==
    pc = "idle" /\ outcome.kind = "returned" /\ outcome.call = "get_VWAP_df"

\* The messages of the feed of type t, in feed order.
MessagesOfType(t) == LET is(m) == m[1] = t IN SelectSeq(feed, is)

\* The records of the feed's P messages and of its Q messages.
FeedTrades ==
    LET ms == MessagesOfType(80)
    IN  [i \in 1..Len(ms) |-> trade_message(SubSeq(ms[i], 2, 44))]

FeedCrossTrades ==
    LET ms == MessagesOfType(81)
    IN  [i \in 1..Len(ms) |-> cross_trade_message(SubSeq(ms[i], 2, 40))]

\* The sum of f[i] over the i of S.
RECURSIVE SetSum(_, _)
SetSum(f, S) ==
    IF S = {} THEN 0
    ELSE LET i == CHOOSE x \in S : TRUE IN f[i] + SetSum(f, S \ {i})

Reverse(q) == [i \in 1..Len(q) |-> q[Len(q) + 1 - i]]

\* v is a / b rounded to the nearest whole number.
IsNearest(v, a, b) ==
    /\ 2 * (v * b - a) <= b
    /\ 2 * (a - v * b) <= b

\* The trades the last get_VWAP_df aggregated.
Aggregated ==
    IF include_cross_trade THEN trade_df.rows \o cross_trade_df.rows
    ELSE trade_df.rows

\* 'H:MM:SS' of a number of seconds below a day.
Clock(seconds) ==
    FormatInt(seconds \div 3600) \o <<":">>
        \o FormatInt02((seconds % 3600) \div 60) \o <<":">>
        \o FormatInt02(seconds % 60)

----------------------------------------------------------------------------
(* The claims. *)

\* C1: a byte outside the known message types, where a message starts, ends
\* the parse with an exception whatever was decoded before it: no call
\* returns, and self.trade_df and self.cross_trade_df stay None.
C1_UnknownTypeAborts ==
    UnknownDelivered =>
        /\ outcome.kind # "returned"
        /\ outcome.value = <<>>
        /\ trade_df = None
        /\ cross_trade_df = None

\* C1's case: the parse has decoded a trade, met the unknown type and raised.
C1_Witness ==
    /\ UnknownDelivered
    /\ Finished
    /\ outcome.exc = "AssertionError"
    /\ Len(trade_list) = 1
    /\ trade_df = None

\* C2: a file that ends inside a message (in a skipped payload, in the 43
\* bytes of a P, the 39 bytes of a Q or the 2 bytes after them) never yields
\* a returned result: a call returns only when the file ends where a message
\* starts.
C2_ShortReadIsFatal ==
    (Finished /\ outcome.kind = "returned" /\ Len(stream) >= Len(Preamble))
        => Len(stream) \in Boundaries

\* C3: whenever a call has ended, by a return or by an exception, the file
\* it opened is closed.
C3_HandleClosedAtExit == Finished => handle = "closed"

\* C4's state part, on a well-formed feed: every message type is read where
\* a message of the feed starts, the parse never fails on a message type or
\* on a short message, and a return yields exactly the records of the feed's
\* P messages and of its Q messages, in feed order.
C4_FramedState ==
    WellFormed =>
        /\ \A i \in 1..Len(tag_reads) :
              i <= Len(feed) /\ tag_reads[i] = MessageStart(i)
        /\ outcome.exc \notin {"AssertionError", "struct.error"}
        /\ (pc = "idle" /\ ~trade_df.isNone) =>
              /\ Len(tag_reads) = Len(feed)
              /\ trade_df.rows = FeedTrades
              /\ cross_trade_df.rows = FeedCrossTrades
        /\ (pc = "idle" /\ outcome.kind = "returned"
                /\ outcome.call = "get_trade_data") =>
              outcome.value = <<DataFrame(FeedTrades), DataFrame(FeedCrossTrades)>>

C5_HourBucketOfTimestamp ==
    (Finished /\ Len(feed) = 1 /\ feed[1] \in TimestampMessages) =>
        LET s    == CHOOSE x \in TimestampSamples : x.ts = SubSeq(feed[1], 6, 11)
            rows == trade_df.rows \o cross_trade_df.rows
        IN  /\ outcome.kind = "returned"
            /\ Len(rows) = 1
            /\ rows[1].end_time_hour = (s.seconds \div 3600) + 1
            /\ rows[1].time = Clock(s.seconds)

\* The trades the last get_VWAP_df aggregated, by index, with a key.
TradesOfKey(h, st) ==
    {i \in 1..Len(Aggregated) :
        Aggregated[i].end_time_hour = h /\ Aggregated[i].stock = st}

\* C6: the table has exactly one row per (end_time_hour, stock) pair of the
\* aggregated trades, in ascending order of hour and then stock; a row's
\* shares and total_value are the sums of shares and of price * shares over
\* the trades of its pair, its vwap their quotient rounded to 3 decimals;
\* the trades in reverse order give the same table.
C6_HourlyRows ==
    VwapReturned =>
        LET T     == outcome.value
            trs   == Aggregated
            pairs == {<<trs[i].end_time_hour, trs[i].stock>> : i \in 1..Len(trs)}
            sh    == [i \in 1..Len(trs) |-> trs[i].shares]
            val   == [i \in 1..Len(trs) |-> trs[i].price * trs[i].shares]
        IN  /\ {<<T[j].end_time_hour, T[j].stock>> : j \in 1..Len(T)} = pairs
            /\ Len(T) = Cardinality(pairs)
            /\ \A j \in 1..(Len(T) - 1) :
                  \/ T[j].end_time_hour < T[j + 1].end_time_hour
                  \/ /\ T[j].end_time_hour = T[j + 1].end_time_hour
                     /\ StockLess(T[j].stock, T[j + 1].stock)
            /\ \A j \in 1..Len(T) :
                  LET of == TradesOfKey(T[j].end_time_hour, T[j].stock)
                  IN  /\ T[j].shares = SetSum(sh, of)
                      /\ T[j].total_value = SetSum(val, of)
                      /\ T[j].shares > 0 =>
                            IsNearest(T[j].vwap, T[j].total_value, T[j].shares)
            /\ calculate_VWAP(Reverse(trs)) = T

\* C6's case: two stocks, and a bucket of two trades (100 at 100.0 and 200 at
\* 50.0) whose vwap is 66.667.
C6_Witness ==
    /\ VwapReturned
    /\ Len(Aggregated) = 3
    /\ Len(outcome.value) = 2
    /\ \E j \in 1..Len(outcome.value) :
          /\ outcome.value[j].shares = 300
          /\ outcome.value[j].total_value = 20000000
          /\ outcome.value[j].vwap = 66667

\* C7: a row's cum_shares and cum_total_value are the sums of shares and of
\* total_value over the rows of its stock up to its hour, other stocks adding
\* nothing, and cum_vwap their quotient rounded to 3 decimals; so cum_shares
\* never falls along a stock's rows, and a stock's last row holds the sums
\* over all its trades.
C7_CumulativeRows ==
    VwapReturned =>
        LET T    == outcome.value
            trs  == Aggregated
            sh   == [j \in 1..Len(T) |-> T[j].shares]
            val  == [j \in 1..Len(T) |-> T[j].total_value]
            tsh  == [i \in 1..Len(trs) |-> trs[i].shares]
            tval == [i \in 1..Len(trs) |-> trs[i].price * trs[i].shares]
            upTo(i) == {j \in 1..Len(T) :
                          /\ T[j].stock = T[i].stock
                          /\ T[j].end_time_hour <= T[i].end_time_hour}
            day(i)  == {k \in 1..Len(trs) : trs[k].stock = T[i].stock}
            last(i) == \A j \in 1..Len(T) :
                          T[j].stock = T[i].stock =>
                              T[j].end_time_hour <= T[i].end_time_hour
        IN  \A i \in 1..Len(T) :
              /\ T[i].cum_shares = SetSum(sh, upTo(i))
              /\ T[i].cum_total_value = SetSum(val, upTo(i))
              /\ T[i].cum_shares > 0 =>
                    IsNearest(T[i].cum_vwap, T[i].cum_total_value, T[i].cum_shares)
              /\ \A j \in upTo(i) : T[j].cum_shares <= T[i].cum_shares
              /\ last(i) =>
                    /\ T[i].cum_shares = SetSum(tsh, day(i))
                    /\ T[i].cum_total_value = SetSum(tval, day(i))

\* C7's case: 100 shares at 100.0 in bucket 10 and 200 at 50.0 in bucket 11
\* of one stock, with another stock between them: the row of bucket 11 holds
\* 300, 20000.0 and 66.667.
C7_Witness ==
    /\ VwapReturned
    /\ Len(outcome.value) = 3
    /\ outcome.value[2].stock # outcome.value[3].stock
    /\ outcome.value[3].end_time_hour = 11
    /\ outcome.value[3].shares = 200
    /\ outcome.value[3].cum_shares = 300
    /\ outcome.value[3].cum_total_value = 20000000
    /\ outcome.value[3].cum_vwap = 66667

\* C8: without include_cross_trade the table is the aggregate of the records
\* of the feed's P messages alone, whatever Q messages the feed holds; with
\* it, the aggregate of the records of the P and Q messages together, a P and
\* a Q trade of one (end_time_hour, stock) pair falling into one row.
C8_CrossTradesByOption ==
    VwapReturned =>
        LET T      == outcome.value
            shares == [j \in 1..Len(T) |-> T[j].shares]
            p      == [i \in 1..Len(FeedTrades) |-> FeedTrades[i].shares]
            q      == [i \in 1..Len(FeedCrossTrades) |-> FeedCrossTrades[i].shares]
        IN  IF include_cross_trade
            THEN /\ T = calculate_VWAP(FeedTrades \o FeedCrossTrades)
                 /\ SetSum(shares, DOMAIN shares)
                        = SetSum(p, DOMAIN p) + SetSum(q, DOMAIN q)
            ELSE /\ T = calculate_VWAP(FeedTrades)
                 /\ SetSum(shares, DOMAIN shares) = SetSum(p, DOMAIN p)

\* C8's case: a feed with a P trade of 100 shares and a Q trade of 300 shares
\* of one pair, aggregated without the cross trades: one row of 100 shares.
C8_Witness ==
    /\ VwapReturned
    /\ ~include_cross_trade
    /\ Len(FeedTrades) = 1
    /\ Len(FeedCrossTrades) = 1
    /\ FeedCrossTrades[1].shares = 300
    /\ FeedCrossTrades[1].stock = FeedTrades[1].stock
    /\ FeedCrossTrades[1].end_time_hour = FeedTrades[1].end_time_hour
    /\ Len(outcome.value) = 1
    /\ outcome.value[1].shares = 100

\* C9: get_VWAP_df never returns a table with a row whose vwap or cum_vwap is
\* not a number: a bucket or a running total of zero shares raises instead.
C9_NoInvalidVwap ==
    VwapReturned =>
        \A j \in 1..Len(outcome.value) :
            /\ outcome.value[j].vwap \notin {NaN, Inf}
            /\ outcome.value[j].cum_vwap \notin {NaN, Inf}

\* C10's state part: a frame the object holds has the six columns of
\* get_trade_data and no other, and after a failed decode the object holds no
\* frame.
C10_CacheState ==
    /\ ~trade_df.isNone => trade_df.columns = Columns
    /\ ~cross_trade_df.isNone => cross_trade_df.columns = Columns
    /\ (Finished /\ outcome.kind = "raised") =>
          (trade_df = None /\ cross_trade_df = None)

\* C10's step part: a call of get_VWAP_df opens the file exactly when
\* self.trade_df or self.cross_trade_df is None; a step that does not end a
\* decode leaves both as they are; and a call that follows a call with the
\* same argument, on the frames that one left, returns an equal table.
C10_CacheStep ==
    /\ (pc = "idle" /\ calls' = calls + 1 /\ caller' = "get_VWAP_df") =>
          ((decodes' = decodes + 1) <=> (trade_df.isNone \/ cross_trade_df.isNone))
    /\ ~(pc = "loop" /\ msg_type = <<>>) =>
          (trade_df' = trade_df /\ cross_trade_df' = cross_trade_df)
    /\ (VwapReturned /\ VwapReturned' /\ calls' = calls + 1
            /\ include_cross_trade' = include_cross_trade) =>
          outcome'.value = outcome.value

\* C10: get_VWAP_df decodes the file only while a frame is missing, leaves
\* the frames it holds unchanged, returns equal tables for equal arguments
\* and, after a decode that failed, holds no frame and decodes again.
C10_LazyCache == [](C10_CacheState) /\ [][C10_CacheStep]_vars

\* C10's case: the second call of get_VWAP_df found the frames of the first
\* and did not open the file again.
C10_Witness ==
    /\ VwapReturned
    /\ calls = 2
    /\ decodes = 1
    /\ Len(trade_df.rows) = 2
    /\ Len(cross_trade_df.rows) = 1

====
